---- MODULE Spec2Model ----
(***************************************************************************)
(* Verleihnix crawler: start() prepares the Writer, probes the target     *)
(* host and then drives the crawler library with a per-response callback  *)
(* that parses the page, appends a CSV row and queues the discovered      *)
(* URLs.  The model follows src/src/VerleihnixCrawler.js and              *)
(* src/src/Parser.js; the crawler library (queue, connection slots,       *)
(* queueSize) is the external Fetcher.                                     *)
(***************************************************************************)
EXTENDS Naturals, Integers, Sequences, FiniteSets, TLC

\* ------------------------------------------------------------------ bounds
NumPages == 2       \* distinct URLs of the target site
MaxLinks == 2       \* listing rows (.product-row-link) on one page
MaxTasks == 4       \* URLs queued during one run
MaxConn  == 2       \* largest crawlerOptions.maxConnections tried

Pages    == 1..NumPages
StartUrl == 1       \* _createUrlForPath( config.startUrl )
NoUrl    == 0       \* stands for "no URL" where a record field is absent

VARIABLES
    config,          \* this._config: which required keys are present
    maxConnections,  \* crawlerOptions.maxConnections of the Fetcher
    startPc,         \* position of start()
    result,          \* the promise returned by start(): state and error
    tasks,           \* every URL handed to crawler.queue, in queue order
    pendingWrites,   \* appendFile calls in progress (by task)
    file,            \* lines of the output file
    errorLog,        \* fetch errors logged by the callback, in order
    processAlive,    \* FALSE once the process was torn down
    probe,           \* _checkTargetHostIsUp: its promise, timer and socket
    scratch          \* one call of Parser.parse or Writer.write on its own

vars == <<config, maxConnections, startPc, result, tasks, pendingWrites,
          file, errorLog, processAlive, probe, scratch>>

\* ------------------------------------------------------------- documents
\* A fetched document, as far as Parser.parse looks at it: the hrefs of its
\* .product-row-link elements in document order and whether it holds a
\* schema.org Product block.
LinkSeqs == UNION { [1..n -> Pages] : n \in 0..MaxLinks }
Documents == [rows : LinkSeqs, product : BOOLEAN]

\* result stays undefined when the page holds no product block.
NoResult == [present |-> FALSE, link |-> NoUrl]

\* The result object of a product page (its canonical link identifies it).
Record(url) == [present |-> TRUE, link |-> url]

\* A parse that treats listing and product page as alternatives.
ParseExclusive(url, doc) ==
    [result   |-> IF doc.product /\ doc.rows = <<>> THEN Record(url)
                  ELSE NoResult,
     nextUrls |-> doc.rows]

\* Parser.parse: nextUrls are the row links; result is set only when the
\* product block exists.
Parse(url, doc) ==
    [result   |-> IF doc.product THEN Record(url) ELSE NoResult,
     nextUrls |-> doc.rows]

\* --------------------------------------------------------------- promises
NoTask == 0
Err(kind, t) == [kind |-> kind, task |-> t]
Pending == [state |-> "pending", error |-> Err("none", NoTask)]

\* A settle that replaces an earlier outcome.
SettleOverwrite(p, outcome) == outcome

\* resolve()/reject() of a promise settle it only while it is pending.
Settle(p, outcome) == IF p.state = "pending" THEN outcome ELSE p

Resolved == [state |-> "resolved", error |-> Err("none", NoTask)]
Rejected(e) == [state |-> "rejected", error |-> e]

\* ---------------------------------------------------------------- Fetcher
Task(url) == [url |-> url, pc |-> "waiting", result |-> NoResult,
              nextUrls |-> <<>>]

TaskIds == 1..Len(tasks)

\* Tasks that occupy a connection slot: dispatched and not yet released by
\* done().
Running(ts) == { t \in 1..Len(ts) : ts[t].pc \notin {"waiting", "done"} }

Waiting(ts) == { t \in 1..Len(ts) : ts[t].pc = "waiting" }

\* crawler.queueSize: the tasks that are waiting or not yet released.
QueueSize(ts) == Cardinality(Waiting(ts)) + Cardinality(Running(ts))

\* crawler.queue( url ): append a task at the tail of the queue.
RECURSIVE QueueAll(_, _)
QueueAll(ts, urls) ==
    IF urls = <<>> THEN ts
    ELSE QueueAll(Append(ts, Task(Head(urls))), Tail(urls))

\* URLs that suspended handlers still hold and will queue on resumption.
RECURSIVE HeldUrls(_, _)
HeldUrls(ts, n) ==
    IF n = 0 THEN 0 ELSE Len(ts[n].nextUrls) + HeldUrls(ts, n - 1)

\* ----------------------------------------------------------------- Writer
\* One cell of a line: the column it belongs to and the page whose value
\* it holds (no page for the column names of the header).
Cell(column, page) == [column |-> column, page |-> page]

\* _writeHeaders: the column names in the order they are written.
HeaderColumns ==
    <<"articleNumber", "productName", "productImage", "pricePerDay",
      "description", "technicalDetails", "link">>

\* The fields in the order in which Parser.parse builds the result object.
RowColumnsAsParsed ==
    <<"link", "productName", "productImage", "pricePerDay", "description",
      "articleNumber", "technicalDetails">>

\* Writer.write: the fields of the result in the order they are written.
RowColumns ==
    <<"articleNumber", "productName", "productImage", "pricePerDay",
      "description", "technicalDetails", "link">>

\* _writeHeaders: the line of column names.
Header ==
    [kind  |-> "header",
     cells |-> [i \in 1..Len(HeaderColumns) |-> Cell(HeaderColumns[i], NoUrl)]]

\* Writer.write: the line built from the fields of one result.
Row(rec) ==
    [kind  |-> "row",
     cells |-> [i \in 1..Len(RowColumns) |-> Cell(RowColumns[i], rec.link)]]

\* -------------------------------------------------------------- preflight
\* Before _checkTargetHostIsUp has created its promise, timer and socket.
NoProbe == [promise |-> [state |-> "none", error |-> Err("none", NoTask)],
            timer |-> "none", socket |-> "none"]

\* No separate call of the parser or the writer is under way.
Idle == [kind |-> "idle"]

\* -------------------------------------------------------------------- Init
Init ==
    /\ config \in [targetHost : BOOLEAN, outputPath : BOOLEAN]
    /\ maxConnections \in 1..MaxConn
    /\ startPc = "initialize"
    /\ result = Pending
    /\ tasks = <<>>
    /\ pendingWrites = {}
    /\ file = <<>>
    /\ errorLog = <<>>
    /\ processAlive = TRUE
    /\ probe = NoProbe
    /\ scratch = Idle

\* ------------------------------------------------------------------ start()
\* A start() that goes on to the probe whether or not the Writer is ready.
InitializeNotAwaited(ok) == "preflight"

\* start(), line 51: `await this._writer.initialize()`; start() goes on
\* only when the Writer was initialised.
AwaitInitializePc(ok) == IF ok THEN "preflight" ELSE "ended"

\* Writer.initialize: _createOutputDirectoryIfMissing, then _writeHeaders.
WriterInitialize ==
    /\ processAlive
    /\ startPc = "initialize"
    /\ \/ /\ ~config.outputPath
          /\ result' = Settle(result, Rejected(Err("OutputDirectoryNotConfigured", NoTask)))
          /\ startPc' = "ended"
          /\ file' = file
       \/ /\ config.outputPath
          /\ \E ok \in BOOLEAN :
                /\ file' = IF ok THEN <<Header>> ELSE file
                /\ startPc' = AwaitInitializePc(ok)
                /\ result' = IF ok THEN result
                             ELSE Settle(result,
                                         Rejected(Err("WriteError", NoTask)))
    /\ UNCHANGED <<config, maxConnections, tasks, pendingWrites, errorLog,
                   processAlive, probe, scratch>>

\* `if ( !this._config.targetHost )` taken as "the host is checked at all".
TargetHostUnchecked(c) == TRUE

\* _checkTargetHostIsUp, line 111: the target host is configured.
TargetHostConfigured(c) == c.targetHost

\* _checkTargetHostIsUp up to the end of the promise executor: without a
\* target host it throws; otherwise the timer is set and the socket opened.
CheckTargetHostIsUp ==
    /\ processAlive
    /\ startPc = "preflight"
    /\ IF TargetHostConfigured(config)
       THEN /\ probe' = [promise |-> Pending, timer |-> "armed",
                         socket |-> "connecting"]
            /\ startPc' = "awaitPreflight"
            /\ result' = result
       ELSE /\ probe' = probe
            /\ startPc' = "ended"
            /\ result' = Settle(result,
                          Rejected(Err("TargetHostNotConfigured", NoTask)))
    /\ UNCHANGED <<config, maxConnections, tasks, pendingWrites, file,
                   errorLog, processAlive, scratch>>

\* A handler that leaves the timer running.
ClearTimeoutForgotten(tm) == tm

\* clearTimeout( timer ): a timer that has not fired yet never fires.
ClearTimeout(tm) == IF tm = "armed" THEN "cleared" ELSE tm

\* A start() that goes on to the crawler whatever the probe reported.
PreflightNotAwaited(p) == "createCrawler"

\* start(), line 54: `await this._checkTargetHostIsUp()` resumes start()
\* when the probe's promise is settled.
AwaitPreflightPc(p) ==
    IF startPc # "awaitPreflight" \/ p.state = "pending" THEN startPc
    ELSE IF p.state = "resolved" THEN "createCrawler" ELSE "ended"

\* start() rejects with the error of the probe.
AwaitPreflightResult(p) ==
    IF startPc = "awaitPreflight" /\ p.state = "rejected"
    THEN Settle(result, Rejected(p.error)) ELSE result

\* The connect callback: clearTimeout, resolve(), socket.end().
SocketConnect ==
    /\ processAlive
    /\ probe.socket = "connecting"
    /\ probe' = [promise |-> Settle(probe.promise, Resolved),
                 timer   |-> ClearTimeout(probe.timer),
                 socket  |-> "connected"]
    /\ startPc' = AwaitPreflightPc(probe'.promise)
    /\ result' = AwaitPreflightResult(probe'.promise)
    /\ UNCHANGED <<config, maxConnections, tasks, pendingWrites, file,
                   errorLog, processAlive, scratch>>

\* The timer callback: socket.end() && reject( 'Connection Timeout' ).  The
\* socket is only asked to end; its connect or error may still be reported.
TimerFires ==
    /\ processAlive
    /\ probe.timer = "armed"
    /\ probe' = [promise |-> Settle(probe.promise,
                               Rejected(Err("ConnectionTimeout", NoTask))),
                 timer   |-> "fired",
                 socket  |-> probe.socket]
    /\ startPc' = AwaitPreflightPc(probe'.promise)
    /\ result' = AwaitPreflightResult(probe'.promise)
    /\ UNCHANGED <<config, maxConnections, tasks, pendingWrites, file,
                   errorLog, processAlive, scratch>>

\* The 'error' listener: clearTimeout, reject( error ).  An error reported
\* after the connection was established changes nothing the program keeps.
SocketError ==
    /\ processAlive
    /\ probe.socket \in {"connecting", "connected"}
    /\ probe' = [promise |-> Settle(probe.promise,
                               Rejected(Err("SocketError", NoTask))),
                 timer   |-> ClearTimeout(probe.timer),
                 socket  |-> IF probe.socket = "connecting" THEN "failed"
                             ELSE probe.socket]
    /\ startPc' = AwaitPreflightPc(probe'.promise)
    /\ result' = AwaitPreflightResult(probe'.promise)
    /\ UNCHANGED <<config, maxConnections, tasks, pendingWrites, file,
                   errorLog, processAlive, scratch>>

\* _createCrawler: build the crawler and queue the start URL.
CreateCrawler ==
    /\ processAlive
    /\ startPc = "createCrawler"
    /\ tasks' = QueueAll(tasks, <<StartUrl>>)
    /\ startPc' = "crawl"
    /\ UNCHANGED <<config, maxConnections, result, pendingWrites, file,
                   errorLog, processAlive, probe, scratch>>

\* ---------------------------------------------------------------- Fetcher
\* The Fetcher starts the request at the head of its queue when a
\* connection slot is free.
Dispatch(t) ==
    /\ processAlive
    /\ t \in Waiting(tasks)
    /\ \A u \in Waiting(tasks) : t <= u
    /\ Cardinality(Running(tasks)) < maxConnections
    /\ tasks' = [tasks EXCEPT ![t].pc = "fetching"]
    /\ UNCHANGED <<config, maxConnections, startPc, result, pendingWrites,
                   file, errorLog, processAlive, probe, scratch>>

\* ------------------------------------------------------- response callback
\* The callback and _handle are async functions.  A continuation after an
\* await runs as a microtask, so everything between two I/O events (the
\* arrival of a response, the completion of an appendFile) is one step.

\* A handler that queues only the first discovered URL.
HandleReturnFirstOnly(ts, t) ==
    QueueAll([ts EXCEPT ![t].pc = "handled", ![t].nextUrls = <<>>],
             IF ts[t].nextUrls = <<>> THEN <<>>
             ELSE <<Head(ts[t].nextUrls)>>)

\* _handle, lines 91-101: queue every discovered URL and return.
HandleReturn(ts, t) ==
    QueueAll([ts EXCEPT ![t].pc = "handled", ![t].nextUrls = <<>>],
             ts[t].nextUrls)

\* done(): the task releases its connection slot.
Release(ts, t) == [ts EXCEPT ![t].pc = "done"]

\* A callback that returns without calling done().
CallbackDoneForgotten(ts, t) == ts

\* The callback after `await callback( crawler, response )`: done().
CallbackDone(ts, t) == Release(ts, t)

\* A handler that starts the write without awaiting it and runs on.
StartWriteNoAwait(ts, t) == CallbackDone(HandleReturn(ts, t), t)

\* _handle, line 85: the handler suspends until the write has completed.
StartWrite(ts, t) == [ts EXCEPT ![t].pc = "writing"]

\* A check that does not look at the queue.
QueueDrainedAlways(ts) == TRUE

\* crawler.queueSize === 0
QueueDrained(ts) == QueueSize(ts) = 0

\* The end of the callback: resolve() when the task was released and the
\* crawler reports an empty queue.
ResultAfter(ts, t) ==
    IF ts[t].pc = "done" /\ QueueDrained(ts) THEN Settle(result, Resolved)
    ELSE result

\* A write that replaces the file instead of appending to it.
OverwriteFile(f, row) == <<row>>

\* appendFile: the row goes to the end of the file.
AppendRow(f, row) == Append(f, row)

\* start() resumes as soon as the awaited promise is settled.
StartPcFor(r) == IF r.state = "pending" THEN startPc ELSE "ended"

\* The callback is invoked with an error: it logs, rejects and returns
\* without calling done().
CallbackError(t) ==
    /\ processAlive
    /\ t \in TaskIds
    /\ tasks[t].pc = "fetching"
    /\ errorLog' = Append(errorLog, t)
    /\ result' = Settle(result, Rejected(Err("FetchError", t)))
    /\ startPc' = StartPcFor(result')
    /\ tasks' = [tasks EXCEPT ![t].pc = "failed"]
    /\ UNCHANGED <<config, maxConnections, pendingWrites, file, processAlive,
                   probe, scratch>>

\* The callback is invoked with a response: _handle runs the parser; with a
\* result it starts Writer.write and suspends, without one it queues the
\* discovered URLs and the callback calls done() and checks the queue.
CallbackResponse(t, doc) ==
    /\ processAlive
    /\ t \in TaskIds
    /\ tasks[t].pc = "fetching"
    /\ Len(tasks) + HeldUrls(tasks, Len(tasks)) + Len(doc.rows) <= MaxTasks
    /\ LET parsed == Parse(tasks[t].url, doc)
           ts1 == [tasks EXCEPT ![t].result = parsed.result,
                                ![t].nextUrls = parsed.nextUrls]
       IN IF parsed.result.present
          THEN /\ pendingWrites' = pendingWrites \cup {t}
               /\ tasks' = StartWrite(ts1, t)
          ELSE /\ pendingWrites' = pendingWrites
               /\ tasks' = CallbackDone(HandleReturn(ts1, t), t)
    /\ result' = ResultAfter(tasks', t)
    /\ startPc' = StartPcFor(result')
    /\ UNCHANGED <<config, maxConnections, file, errorLog, processAlive,
                   probe, scratch>>

\* appendFile completes: the row is in the file; the handler that awaits the
\* write resumes, queues the discovered URLs, and the callback calls done()
\* and checks the queue.
AppendFileOk(t) ==
    /\ processAlive
    /\ t \in pendingWrites
    /\ file' = AppendRow(file, Row(tasks[t].result))
    /\ pendingWrites' = pendingWrites \ {t}
    /\ IF tasks[t].pc = "writing"
       THEN /\ tasks' = CallbackDone(HandleReturn(tasks, t), t)
            /\ result' = ResultAfter(tasks', t)
       ELSE /\ tasks' = tasks
            /\ result' = result
    /\ startPc' = StartPcFor(result')
    /\ UNCHANGED <<config, maxConnections, errorLog, processAlive, probe,
                   scratch>>

\* appendFile fails: the exception leaves _handle and the callback, whose
\* promise nobody observes; neither done() nor reject() is called.  The
\* runtime either only warns about the unhandled rejection or ends the
\* process.
AppendFileFail(t) ==
    /\ processAlive
    /\ t \in pendingWrites
    /\ pendingWrites' = pendingWrites \ {t}
    /\ tasks' = IF tasks[t].pc = "writing"
                THEN [tasks EXCEPT ![t].pc = "threw", ![t].nextUrls = <<>>]
                ELSE tasks
    /\ \E exits \in BOOLEAN : processAlive' = ~exits
    /\ UNCHANGED <<config, maxConnections, startPc, result, file, errorLog,
                   probe, scratch>>

\* ------------------------------------------------------------------- Next
Next ==
    \/ WriterInitialize
    \/ CheckTargetHostIsUp
    \/ SocketConnect
    \/ TimerFires
    \/ SocketError
    \/ CreateCrawler
    \/ \E t \in 1..MaxTasks : Dispatch(t)
    \/ \E t \in 1..MaxTasks : CallbackError(t)
    \/ \E t \in 1..MaxTasks : \E doc \in Documents : CallbackResponse(t, doc)
    \/ \E t \in 1..MaxTasks : AppendFileOk(t)
    \/ \E t \in 1..MaxTasks : AppendFileFail(t)

Spec == Init /\ [][Next]_vars

\* Every started request ends in a response or an error, every started write
\* completes or fails, and the event loop runs every continuation.
Fairness ==
    /\ WF_vars(WriterInitialize)
    /\ WF_vars(CheckTargetHostIsUp)
    /\ WF_vars(TimerFires)
    /\ WF_vars(CreateCrawler)
    /\ WF_vars(\E t \in 1..MaxTasks : Dispatch(t))
    /\ WF_vars(\E t \in 1..MaxTasks :
                  \/ CallbackError(t)
                  \/ \E doc \in Documents : CallbackResponse(t, doc))
    /\ WF_vars(\E t \in 1..MaxTasks : AppendFileOk(t) \/ AppendFileFail(t))

FairSpec == Spec /\ Fairness

TypeOK ==
    /\ startPc \in {"initialize", "preflight", "awaitPreflight",
                    "createCrawler", "crawl", "ended"}
    /\ probe.timer \in {"none", "armed", "cleared", "fired"}
    /\ probe.socket \in {"none", "connecting", "connected", "failed"}
    /\ result.state \in {"pending", "resolved", "rejected"}
    /\ Len(tasks) <= MaxTasks
    /\ \A t \in TaskIds :
          tasks[t].pc \in {"waiting", "fetching", "writing", "done",
                           "failed", "threw"}
    /\ pendingWrites \subseteq TaskIds

\* ------------------------------------------------------------ properties
Count(f, row) == Cardinality({ i \in 1..Len(f) : f[i] = row })

Succeeded == result.state = "resolved"

\* C1: whenever the crawl is signalled as successfully complete, the
\* Fetcher's queue is empty, no fetch is in flight, no handler is still
\* running and no write is in progress.
C1_SuccessOnlyWhenDrained ==
    Succeeded =>
        /\ Waiting(tasks) = {}
        /\ \A t \in TaskIds : tasks[t].pc = "done"
        /\ pendingWrites = {}

\* A successful crawl of several pages with two connections.
C1_Witness ==
    /\ Succeeded
    /\ maxConnections >= 2
    /\ Len(tasks) >= 3

\* C2 (as claimed): after the first fetch error was surfaced, no queued URL
\* is dispatched any more.
C2_NoDispatchAfterError ==
    [][errorLog # <<>> =>
          \A t \in TaskIds :
             tasks[t].pc = "waiting" => tasks'[t].pc = "waiting"]_vars

\* C3 (as claimed): once a fetch error has aborted the run, the output file
\* never changes again.
C3_FileFrozenAfterAbort ==
    [][errorLog # <<>> => file' = file]_vars

\* C4 (as claimed): a failed Sink.write ends the run with that failure; the
\* run never comes to rest with the write error swallowed.
C4_WriteErrorSurfaces ==
    (\E t \in TaskIds : tasks[t].pc = "threw") =>
        \/ ENABLED Next
        \/ result.state = "rejected" /\ result.error.kind = "WriteError"

\* C5 (as claimed): no URL is enqueued into the frontier more than once.
C5_NoUrlQueuedTwice ==
    \A i, j \in TaskIds : i # j => tasks[i].url # tasks[j].url

\* C6 (as claimed): at most one Sink.write is in progress at any time.
C6_OneWriteAtATime == Cardinality(pendingWrites) <= 1

\* C6 (amended): the number of Sink.write calls in progress never exceeds
\* the Fetcher's concurrency limit, because every handler that awaits a
\* write holds a connection slot.
C6_WritesBoundedByConnections ==
    /\ Cardinality(pendingWrites) <= maxConnections
    /\ \A t \in pendingWrites : t \in Running(tasks)

\* A write in progress while the connection limit is 1.
C6_Witness ==
    /\ maxConnections = 1
    /\ pendingWrites # {}
    /\ Len(tasks) >= 2

\* C7: a unit of work is acknowledged (done()) only after its response was
\* parsed and, when the page yields a record, after the write of that
\* record has completed and the row is in the file.
C7_AckAfterWrite ==
    /\ \A t \in TaskIds :
          (tasks[t].pc = "done" /\ tasks[t].result.present)
             => t \notin pendingWrites
    /\ \A p \in Pages :
          Count(file, Row(Record(p))) >=
             Cardinality({ t \in TaskIds : /\ tasks[t].pc = "done"
                                           /\ tasks[t].url = p
                                           /\ tasks[t].result.present })

\* An acknowledged task whose page yielded a record.
C7_Witness ==
    \E t \in TaskIds : tasks[t].pc = "done" /\ tasks[t].result.present

RunFailed ==
    \/ result.state = "rejected"
    \/ \E t \in TaskIds : tasks[t].pc \in {"failed", "threw"}
    \/ ~processAlive

\* C8: when the Writer initialises, the target host answers and no fetch
\* and no write fails, the run eventually signals successful completion.
C8_EventuallySucceeds == <>(Succeeded \/ RunFailed)

\* A successful crawl of a site without link cycles (no page links back to
\* the start page) that fetched several pages.
C8_Witness ==
    /\ Succeeded
    /\ Len(tasks) >= 3
    /\ \A t \in 2..Len(tasks) : tasks[t].url > StartUrl

\* C9: the result is produced at most once and is terminal, and among
\* several fetch errors the first one is the one reported.
C9_ResultTerminal ==
    [][/\ result.state # "pending" => result' = result
       /\ errorLog' # <<>> =>
             result' = Rejected(Err("FetchError", Head(errorLog')))]_vars

\* Two fetch errors were surfaced and the first one is the result.
C9_Witness ==
    /\ Len(errorLog) >= 2
    /\ result = Rejected(Err("FetchError", Head(errorLog)))

\* C10: when the run is signalled as successfully complete, the file holds
\* the header as its first line and exactly one row for each fetched page
\* that yielded a record.
C10_FileCompleteAtSuccess ==
    Succeeded =>
        /\ Len(file) >= 1
        /\ file[1] = Header
        /\ Len(file) =
              1 + Cardinality({ t \in TaskIds : tasks[t].result.present })
        /\ \A p \in Pages :
              Count(file, Row(Record(p))) =
                 Cardinality({ t \in TaskIds : /\ tasks[t].url = p
                                               /\ tasks[t].result.present })

\* A single detail page without links: one row and success.
C10_Witness ==
    /\ Succeeded
    /\ Len(tasks) = 1
    /\ file = <<Header, Row(Record(StartUrl))>>

\* ------------------------------------------------- properties of start()
ConfigComplete == config.targetHost /\ config.outputPath

ConfigErrors == {"OutputDirectoryNotConfigured", "TargetHostNotConfigured"}

PreflightBegun == probe.socket # "none"

PreflightSucceeded == probe.promise.state = "resolved"

\* C11 (as claimed): Sink.initialize (the header write) never happens before
\* the Preflight has succeeded.
C11_InitializeAfterPreflight == file # <<>> => PreflightSucceeded

\* C11 (amended): start() runs Sink.initialize first, then the Preflight,
\* then seeds the frontier, each step only after the previous one succeeded:
\* no socket is opened before the header is written, and no URL is queued
\* before the Preflight has succeeded.
C11_InitializeThenPreflightThenSeed ==
    /\ PreflightBegun => (file # <<>> /\ file[1] = Header)
    /\ tasks # <<>> =>
          (PreflightSucceeded /\ file # <<>> /\ file[1] = Header)
    /\ (startPc = "initialize") => (~PreflightBegun /\ tasks = <<>>)

\* The start URL is queued after both earlier steps succeeded.
C11_Witness ==
    /\ Len(tasks) = 1
    /\ tasks[1].url = StartUrl
    /\ PreflightSucceeded
    /\ file = <<Header>>

\* C12 (as claimed): with the target host or the output location missing,
\* start() fails with a configuration error.
C12_FailsWithConfigurationError ==
    (~ConfigComplete /\ startPc = "ended") =>
        (result.state = "rejected" /\ result.error.kind \in ConfigErrors)

\* C12 (amended): with the target host or the output location missing,
\* start() fails before any socket is opened and before any fetch is
\* issued; the failure is a configuration error, unless only the target
\* host is missing and Sink.initialize fails first with a write error.
C12_IncompleteConfigFailsBeforeSocket ==
    ~ConfigComplete =>
        /\ ~PreflightBegun
        /\ tasks = <<>>
        /\ startPc \in {"initialize", "preflight", "ended"}
        /\ startPc = "ended" =>
              /\ result.state = "rejected"
              /\ \/ result.error.kind \in ConfigErrors
                 \/ /\ result.error.kind = "WriteError"
                    /\ config.outputPath
                    /\ ~config.targetHost

\* The target host is missing, the Writer was initialised, and start() has
\* failed with the configuration error.
C12_Witness ==
    /\ ~config.targetHost
    /\ file = <<Header>>
    /\ result = Rejected(Err("TargetHostNotConfigured", NoTask))

\* C13: when the Preflight times out or the socket reports an error first,
\* the run ends with that connectivity failure and no URL is ever queued or
\* fetched.
C13_PreflightFailureEndsRun ==
    probe.promise.state = "rejected" =>
        /\ result = Rejected(probe.promise.error)
        /\ result.error.kind \in {"ConnectionTimeout", "SocketError"}
        /\ startPc = "ended"
        /\ tasks = <<>>

\* The timer fired before the socket connected.
C13_Witness ==
    /\ probe.timer = "fired"
    /\ result = Rejected(Err("ConnectionTimeout", NoTask))

ProbeOutcomeConsistent ==
    /\ probe.timer = "fired" <=>
          probe.promise = Rejected(Err("ConnectionTimeout", NoTask))
    /\ probe.promise.state = "resolved" =>
          (probe.timer = "cleared" /\ probe.socket = "connected")
    /\ probe.promise = Rejected(Err("SocketError", NoTask)) =>
          (probe.timer = "cleared" /\ probe.socket = "failed")
    /\ probe.socket \in {"connected", "failed"} => probe.timer # "armed"

\* C14: the Preflight produces exactly one outcome; the first of connect,
\* timeout and socket error decides it, the timer is cancelled on connect
\* and on error, and no later event changes the outcome.
C14_OneProbeOutcome ==
    /\ []ProbeOutcomeConsistent
    /\ [][probe.promise.state \in {"resolved", "rejected"} =>
             probe'.promise = probe.promise]_vars

\* The timeout came first and the socket connected afterwards: the outcome
\* is still the timeout.
C14_Witness ==
    /\ probe.timer = "fired"
    /\ probe.socket = "connected"
    /\ probe.promise = Rejected(Err("ConnectionTimeout", NoTask))

\* --------------------------------------------------- properties of _handle
\* The step in which the response doc of task t, a page with discovered
\* URLs and no product block, is handled.
ListingHandled(t, doc) ==
    /\ ~doc.product
    /\ doc.rows # <<>>
    /\ CallbackResponse(t, doc)

\* C15: handling a page that yields N >= 1 discovered URLs and no record
\* queues exactly those N URLs at the tail of the frontier, in the order the
\* parser returned them, appends no row and does not complete the run; the
\* run completes only when every queued URL has been processed.
C15_ListingQueuesItsUrls ==
    /\ [][\A t \in TaskIds : \A doc \in Documents :
             ListingHandled(t, doc) =>
                LET urls == Parse(tasks[t].url, doc).nextUrls
                IN /\ Len(tasks') = Len(tasks) + Len(urls)
                   /\ \A i \in 1..Len(urls) :
                         /\ tasks'[Len(tasks) + i].url = urls[i]
                         /\ tasks'[Len(tasks) + i].pc = "waiting"
                   /\ \A u \in 1..Len(tasks) :
                         tasks'[u].url = tasks[u].url
                   /\ tasks'[t].pc = "done"
                   /\ file' = file
                   /\ result'.state # "resolved"]_vars
    /\ [](Succeeded => \A t \in TaskIds : tasks[t].pc = "done")

\* A listing page with two different links was handled: both are queued in
\* its order, nothing else has happened, and the file holds the header only.
C15_Witness ==
    /\ Len(tasks) = 3
    /\ tasks[1].pc = "done"
    /\ ~tasks[1].result.present
    /\ tasks[2].url = 2 /\ tasks[2].pc = "waiting"
    /\ tasks[3].url = 1 /\ tasks[3].pc = "waiting"
    /\ file = <<Header>>
    /\ result.state = "pending"

\* -------------------------------------------------- properties of the file
SpecifiedColumns ==
    <<"articleNumber", "productName", "productImage", "pricePerDay",
      "description", "technicalDetails", "link">>

FileWellFormed ==
    /\ (startPc \notin {"initialize", "ended"} \/ tasks # <<>>) =>
          file # <<>>
    /\ file # <<>> =>
          /\ file[1] = Header
          /\ [j \in 1..Len(file[1].cells) |-> file[1].cells[j].column]
                = SpecifiedColumns
          /\ \A i \in 2..Len(file) :
                /\ file[i].kind = "row"
                /\ Len(file[i].cells) = Len(SpecifiedColumns)
                /\ \A j \in 1..Len(file[i].cells) :
                      /\ file[i].cells[j].column = file[1].cells[j].column
                      /\ file[i].cells[j].page \in Pages

\* C16: after Sink.initialize the file is the header, written once as the
\* first line, followed only by appended record rows; no row precedes the
\* header, and every row lists its 7 fields in the column order of the
\* header: article number, product name, product image, price per day,
\* description, technical details, link.
C16_HeaderThenRows ==
    /\ []FileWellFormed
    /\ [][file # <<>> =>
             /\ Len(file') >= Len(file)
             /\ SubSeq(file', 1, Len(file)) = file]_vars

\* Two rows were appended after the header.
C16_Witness ==
    /\ Len(file) = 3
    /\ file[1] = Header
    /\ file[2].kind = "row"
    /\ file[3].kind = "row"

\* --------------------------------------------------------- the process
\* index.js: the handler passed to .catch() runs when start() rejects and
\* prints the error with console.error.
ErrorPrinted == result.state = "rejected"

\* The process ends when the runtime tears it down for an unhandled
\* rejection, or when nothing is left for the event loop to run.
ProcessEnded == ~processAlive \/ ~ENABLED Next

\* The exit status: index.js neither sets process.exitCode nor calls
\* process.exit, and its .catch() handler returns normally, so the status
\* is 0 unless the runtime has torn the process down.
ExitStatus == IF processAlive THEN 0 ELSE 1

\* C22: when start() failed, the error is printed and the process ends
\* with a non-zero exit status; the status is zero only after a successful
\* run.
C22_ExitStatusReflectsResult ==
    ProcessEnded =>
       /\ result.state = "rejected" => (ErrorPrinted /\ ExitStatus # 0)
       /\ ExitStatus = 0 => Succeeded

\* ------------------------------------------------- write before enqueue
\* The handler of task t is suspended at the write of its record and holds
\* discovered URLs.
HoldsUrls(t) == tasks[t].pc = "writing" /\ tasks[t].nextUrls # <<>>

\* C23: for a page that yields a record and URLs, the write of the record
\* has completed before any of the page's URLs is queued: the step that
\* handles the response queues nothing, the URLs are queued in the step in
\* which the row reaches the file, and when the write fails none of them
\* is queued, then or later.
C23_WriteBeforeEnqueue ==
    /\ [][\A t \in TaskIds : \A doc \in Documents :
             (doc.product /\ doc.rows # <<>> /\ CallbackResponse(t, doc)) =>
                /\ Len(tasks') = Len(tasks)
                /\ tasks'[t].pc = "writing"
                /\ tasks'[t].nextUrls = doc.rows
                /\ t \in pendingWrites'
                /\ file' = file]_vars
    /\ [][\A t \in TaskIds :
             HoldsUrls(t) =>
                \/ /\ tasks'[t].pc = "writing"
                   /\ tasks'[t].nextUrls = tasks[t].nextUrls
                \/ /\ tasks'[t].pc = "done"
                   /\ file' = Append(file, Row(tasks[t].result))
                   /\ Len(tasks') = Len(tasks) + Len(tasks[t].nextUrls)
                   /\ \A i \in 1..Len(tasks[t].nextUrls) :
                         /\ tasks'[Len(tasks) + i].url = tasks[t].nextUrls[i]
                         /\ tasks'[Len(tasks) + i].pc = "waiting"
                \/ /\ tasks'[t].pc = "threw"
                   /\ tasks'[t].nextUrls = <<>>
                   /\ Len(tasks') = Len(tasks)
                   /\ file' = file]_vars
    /\ [][\A t \in TaskIds :
             tasks[t].pc = "threw" => tasks'[t] = tasks[t]]_vars
    /\ [](\A t \in TaskIds : tasks[t].pc = "writing" => t \in pendingWrites)

\* The row of the start page is in the file and the two URLs found on that
\* page are queued behind it.
C23_Witness ==
    /\ Len(tasks) = 3
    /\ tasks[1].result.present
    /\ tasks[1].pc = "done"
    /\ file = <<Header, Row(tasks[1].result)>>
    /\ tasks[2].pc = "waiting"
    /\ tasks[3].pc = "waiting"

\* ------------------------------------------------ values, texts and JSON
\* Texts are sequences of characters.  The alphabet holds one ordinary
\* letter and the characters the CSV line gives a meaning to.
MaxText == 2

Letter    == "n"
Semicolon == ";"
Quote     == "\""
Newline   == "\n"
Backslash == "\\"

Chars == {Letter, Semicolon, Quote, Newline, Backslash}
Texts == UNION { [1..n -> Chars] : n \in 0..MaxText }

\* JavaScript values of the fields of a result.
Str(s)    == [type |-> "string",    chars |-> s,    entries |-> <<>>]
Num(d)    == [type |-> "number",    chars |-> d,    entries |-> <<>>]
Obj(e)    == [type |-> "object",    chars |-> <<>>, entries |-> e]
NaN       == [type |-> "NaN",       chars |-> <<>>, entries |-> <<>>]
Null      == [type |-> "null",      chars |-> <<>>, entries |-> <<>>]
Undefined == [type |-> "undefined", chars |-> <<>>, entries |-> <<>>]

\* An escape that leaves line breaks as they are.
EscapeQuotesOnly(c) ==
    IF c \in {Quote, Backslash} THEN <<Backslash, c>> ELSE <<c>>

\* JSON.stringify of one character of a string.
Escape(c) ==
    CASE c \in {Quote, Backslash} -> <<Backslash, c>>
      [] c = Newline              -> <<Backslash, Letter>>
      [] OTHER                    -> <<c>>

RECURSIVE EscapeAll(_)
EscapeAll(s) ==
    IF s = <<>> THEN <<>> ELSE Escape(Head(s)) \o EscapeAll(Tail(s))

\* JSON.stringify of a string: the escaped characters between quotes.
Quoted(s) == <<Quote>> \o EscapeAll(s) \o <<Quote>>

\* Array.prototype.join: undefined and null elements become empty texts.
RECURSIVE Join(_, _)
Join(vs, sep) ==
    IF vs = <<>> THEN <<>>
    ELSE LET v    == Head(vs)
             text == IF v.type \in {"undefined", "null"} THEN <<>> ELSE v.chars
         IN IF Len(vs) = 1 THEN text ELSE text \o sep \o Join(Tail(vs), sep)

\* JSON.stringify of the entries of an object.
StringifyEntries(e) ==
    [i \in 1..Len(e) |-> Str(Quoted(e[i].key) \o <<":">> \o Quoted(e[i].value))]

\* JSON.stringify of a value: a text, or undefined for undefined.
JsonStringify(v) ==
    CASE v.type = "string"    -> Str(Quoted(v.chars))
      [] v.type = "number"    -> Str(v.chars)
      [] v.type = "object"    ->
            Str(<<"{">> \o Join(StringifyEntries(v.entries), <<",">>) \o <<"}">>)
      [] v.type \in {"NaN", "null"} -> Str(<<"n", "u", "l", "l">>)
      [] OTHER                -> Undefined

\* String.prototype.replace with a string pattern: the first line break only.
RECURSIVE ReplaceNewline(_)
ReplaceNewline(s) ==
    IF s = <<>> THEN <<>>
    ELSE IF Head(s) = Newline THEN <<Backslash, Letter>> \o Tail(s)
    ELSE <<Head(s)>> \o ReplaceNewline(Tail(s))

\* Writer.write: the text handed to appendFile for one result.
WriteText(rec) ==
    ReplaceNewline(
        Join([i \in 1..Len(RowColumns) |-> JsonStringify(rec[RowColumns[i]])],
             <<Semicolon>>))
    \o <<Newline>>

\* ------------------------------------- Writer.write on a result of its own
NoText == <<>>

\* Technical details with at most one entry.
DetailValues ==
    {Obj(<<>>)} \cup
    {Obj(<<[key |-> <<Letter>>, value |-> s]>>) : s \in Texts}

\* The values a field of a result can take.
FieldValues(column) ==
    CASE column = "pricePerDay"      -> {Num(<<"1">>), NaN}
      [] column = "technicalDetails" -> DetailValues
      [] column = "productImage"     -> {Str(s) : s \in Texts} \cup {Undefined}
      [] column = "link"             -> {Str(s) : s \in Texts} \cup {Undefined}
      [] OTHER                       -> {Str(s) : s \in Texts}

\* A result whose description holds a line break.
PlainResult ==
    [link             |-> Str(<<Letter>>),
     productName      |-> Str(<<Letter>>),
     productImage     |-> Str(<<Letter>>),
     pricePerDay      |-> Num(<<"1">>),
     description      |-> Str(<<Letter, Newline>>),
     articleNumber    |-> Str(<<Letter>>),
     technicalDetails |-> Obj(<<>>)]

\* The results handed to Writer.write: PlainResult with one field replaced.
Results ==
    UNION { { [PlainResult EXCEPT ![column] = v] : v \in FieldValues(column) } :
               column \in DOMAIN PlainResult }

WriteJob(rec) == [kind |-> "write", result |-> rec, text |-> NoText]

\* Writer.write: appendFile receives the text of the line.
WriterWrite ==
    /\ scratch.kind = "write"
    /\ scratch' = [kind   |-> "written",
                   result |-> scratch.result,
                   text   |-> WriteText(scratch.result)]
    /\ UNCHANGED <<config, maxConnections, startPc, result, tasks,
                   pendingWrites, file, errorLog, processAlive, probe>>

\* ------------------------------------- Parser.parse on a page of its own
MaxElements == 3
MaxItems == 3

\* The elements of a page that the selectors of Parser.parse tell apart:
\* listing rows with or without href, the product block, and other anchors.
Elements ==
    {[class |-> "product-row-link", href |-> p] : p \in Pages \cup {NoUrl}}
       \cup {[class |-> "product", href |-> NoUrl],
             [class |-> "other", href |-> StartUrl]}

ElementSeqs == UNION { [1..n -> Elements] : n \in 0..MaxElements }

\* The texts of the list items of the technical details, in document order.
ItemKeys   == {<<Letter>>, <<Letter, Letter>>}
ItemValues == {<<Letter>>, <<Semicolon>>}
Items      == [key : ItemKeys, value : ItemValues]
ItemSeqs   == UNION { [1..n -> Items] : n \in 0..MaxItems }

\* $( '.product-row-link' ).each: the href of every listing row, in order.
RECURSIVE RowLinks(_)
RowLinks(elements) ==
    IF elements = <<>> THEN <<>>
    ELSE (IF Head(elements).class = "product-row-link"
          THEN <<Head(elements).href>> ELSE <<>>)
         \o RowLinks(Tail(elements))

\* What Parser.parse looks at in a page.
DocumentOf(elements) ==
    [rows    |-> RowLinks(elements),
     product |-> \E i \in 1..Len(elements) : elements[i].class = "product"]

\* A step that keeps the value a key already has.
KeepFirst(details, item) ==
    IF \E i \in 1..Len(details) : details[i].key = item.key
    THEN details
    ELSE Append(details, item)

\* The reducer: { ...details, [ key ]: value }.
Assign(details, item) ==
    IF \E i \in 1..Len(details) : details[i].key = item.key
    THEN [i \in 1..Len(details) |->
             IF details[i].key = item.key THEN item ELSE details[i]]
    ELSE Append(details, item)

\* Array.prototype.reduce from the empty object.
RECURSIVE Reduce(_, _)
Reduce(items, details) ==
    IF items = <<>> THEN details
    ELSE Reduce(Tail(items), Assign(details, Head(items)))

\* technicalDetails of a product page; undefined with the result otherwise.
TechnicalDetails(doc, items) ==
    IF doc.product THEN Obj(Reduce(items, <<>>)) ELSE Undefined

\* The text of the price element: digits, comma and point.
MaxPrice == 5

Comma == ","
Point == "."
PriceDigits == {"4", "9"}
PriceChars  == PriceDigits \cup {Comma, Point}
PriceTexts  == UNION { [1..n -> PriceChars] : n \in 0..MaxPrice }

ListedPrice == <<"4", "9", Comma, "9", "9">>

\* String.prototype.replace with a string pattern: the first comma only.
RECURSIVE ReplaceComma(_)
ReplaceComma(s) ==
    IF s = <<>> THEN <<>>
    ELSE IF Head(s) = Comma THEN <<Point>> \o Tail(s)
    ELSE <<Head(s)>> \o ReplaceComma(Tail(s))

IsDigits(s) == \A i \in 1..Len(s) : s[i] \in PriceDigits

\* The value of a decimal literal, NaN for a text that is none.
Decimal(s) ==
    LET points == {i \in 1..Len(s) : s[i] = Point}
    IN IF points = {} THEN (IF IsDigits(s) THEN Num(s) ELSE NaN)
       ELSE IF Cardinality(points) > 1 THEN NaN
       ELSE LET k     == CHOOSE i \in points : TRUE
                whole == SubSeq(s, 1, k - 1)
                frac  == SubSeq(s, k + 1, Len(s))
            IN IF IsDigits(whole) /\ IsDigits(frac) /\ whole \o frac # <<>>
               THEN Num((IF whole = <<>> THEN <<"0">> ELSE whole)
                        \o (IF frac = <<>> THEN <<>> ELSE <<Point>> \o frac))
               ELSE NaN

\* Number( text ): the empty text is 0, a decimal literal is its value
\* (written in its shortest form), any other text is NaN.
Number(s) == IF s = <<>> THEN Num(<<"0">>) ELSE Decimal(s)

\* pricePerDay of a product page.
PricePerDay(doc, price) ==
    IF doc.product THEN Number(ReplaceComma(price)) ELSE Undefined

NoOutput ==
    [result |-> NoResult, nextUrls |-> <<>>, technicalDetails |-> Undefined,
     pricePerDay |-> Undefined]

ParseJob(url, elements, items, price) ==
    [kind |-> "parse", url |-> url, elements |-> elements, items |-> items,
     price |-> price, out |-> NoOutput]

\* Parser.parse: the returned result and nextUrls.
ParserParse ==
    /\ scratch.kind = "parse"
    /\ LET doc == DocumentOf(scratch.elements)
           out == Parse(scratch.url, doc)
       IN scratch' =
             [scratch EXCEPT
                !.kind = "parsed",
                !.out  = [result           |-> out.result,
                          nextUrls         |-> out.nextUrls,
                          technicalDetails |->
                             TechnicalDetails(doc, scratch.items),
                          pricePerDay      |->
                             PricePerDay(doc, scratch.price)]]
    /\ UNCHANGED <<config, maxConnections, startPc, result, tasks,
                   pendingWrites, file, errorLog, processAlive, probe>>

\* ---------------------------------------------------- reading a line back
ParseError == [type |-> "SyntaxError", chars |-> <<>>, entries |-> <<>>]

Digits == {"1"}

\* String.prototype.split: the texts between the separators.
RECURSIVE Split(_, _)
Split(s, sep) ==
    IF s = <<>> THEN << <<>> >>
    ELSE LET rest == Split(Tail(s), sep)
         IN IF Head(s) = sep THEN << <<>> >> \o rest
            ELSE << <<Head(s)>> \o Head(rest) >> \o Tail(rest)

\* The characters of a JSON string literal between its quotes.
RECURSIVE Unescape(_)
Unescape(s) ==
    IF s = <<>> THEN [ok |-> TRUE, chars |-> <<>>]
    ELSE IF Head(s) = Backslash
    THEN IF Len(s) < 2 \/ s[2] \notin {Quote, Backslash, Letter}
         THEN [ok |-> FALSE, chars |-> <<>>]
         ELSE LET rest == Unescape(SubSeq(s, 3, Len(s)))
                  c    == IF s[2] = Letter THEN Newline ELSE s[2]
              IN [ok |-> rest.ok, chars |-> <<c>> \o rest.chars]
    ELSE IF Head(s) \in {Quote, Newline}
    THEN [ok |-> FALSE, chars |-> <<>>]
    ELSE LET rest == Unescape(Tail(s))
         IN [ok |-> rest.ok, chars |-> <<Head(s)>> \o rest.chars]

\* JSON.parse of the texts that JSON.stringify and the split can produce.
JsonParse(text) ==
    IF text = <<>> THEN ParseError
    ELSE IF text = <<"n", "u", "l", "l">> THEN Null
    ELSE IF \A i \in 1..Len(text) : text[i] \in Digits THEN Num(text)
    ELSE IF Head(text) = Quote
    THEN IF Len(text) < 2 \/ text[Len(text)] # Quote THEN ParseError
         ELSE LET inner == Unescape(SubSeq(text, 2, Len(text) - 1))
              IN IF inner.ok THEN Str(inner.chars) ELSE ParseError
    ELSE IF \E v \in DetailValues : JsonStringify(v).chars = text
    THEN CHOOSE v \in DetailValues : JsonStringify(v).chars = text
    ELSE ParseError

\* The line of a written text: the text without its final line break.
Line(text) == SubSeq(text, 1, Len(text) - 1)

Newlines(s) == Cardinality({i \in 1..Len(s) : s[i] = Newline})

\* C17: splitting the written line on ';' and decoding each part as JSON
\* gives back the seven values of the result, whatever semicolons, quotes
\* and line breaks they contain.
C17_RoundTrip ==
    scratch.kind = "written" =>
       LET fields == Split(Line(scratch.text), Semicolon)
       IN /\ Len(fields) = Len(RowColumns)
          /\ \A i \in 1..Len(RowColumns) :
                JsonParse(fields[i]) = scratch.result[RowColumns[i]]

\* C18: the text of one write holds exactly one line break, its last
\* character, however many line breaks the values of the result hold.
C18_OneNewlinePerWrite ==
    scratch.kind = "written" =>
       /\ scratch.text # <<>>
       /\ scratch.text[Len(scratch.text)] = Newline
       /\ Newlines(scratch.text) = 1

\* A result with three line breaks in its values was written.
C18_Witness ==
    /\ scratch.kind = "written"
    /\ scratch.result.productName = Str(<<Newline, Newline>>)
    /\ scratch.result.description = Str(<<Letter, Newline>>)
    /\ Len(scratch.text) > 1

\* The positions of the listing rows of a page.
RowPositions(elements) ==
    {i \in 1..Len(elements) : elements[i].class = "product-row-link"}

HasProduct(elements) ==
    \E i \in 1..Len(elements) : elements[i].class = "product"

\* C19: the discovered URLs are the hrefs of the listing rows in document
\* order, one per row, and a record is present exactly when the page holds
\* a product block, whatever rows it holds; a listing page without a
\* product block gives no record.
C19_PageShapesIndependent ==
    scratch.kind = "parsed" =>
       LET rows == RowPositions(scratch.elements)
           urls == scratch.out.nextUrls
       IN /\ Len(urls) = Cardinality(rows)
          /\ \A i \in rows :
                urls[Cardinality({j \in rows : j <= i})]
                   = scratch.elements[i].href
          /\ scratch.out.result.present <=> HasProduct(scratch.elements)
          /\ (rows # {} /\ ~HasProduct(scratch.elements)) =>
                scratch.out.result = NoResult

\* A page with a product block between two listing rows gave both a record
\* and two URLs in the order of the rows.
C19_Witness ==
    /\ scratch.kind = "parsed"
    /\ Len(scratch.elements) = 3
    /\ scratch.elements[2].class = "product"
    /\ scratch.out.result.present
    /\ scratch.out.nextUrls = <<2, 1>>

LastOf(items, key) ==
    items[CHOOSE i \in 1..Len(items) :
             /\ items[i].key = key
             /\ \A j \in (i + 1)..Len(items) : items[j].key # key]

\* C20: the technical details map every key of the list to the value of
\* its last occurrence and hold no other key; a later duplicate changes the
\* value of its own key only.
C20_LastOccurrenceWins ==
    (scratch.kind = "parsed" /\ scratch.out.result.present) =>
       LET items   == scratch.items
           details == scratch.out.technicalDetails.entries
       IN /\ scratch.out.technicalDetails.type = "object"
          /\ {details[i].key : i \in 1..Len(details)}
                = {items[i].key : i \in 1..Len(items)}
          /\ \A i, j \in 1..Len(details) :
                details[i].key = details[j].key => i = j
          /\ \A i \in 1..Len(details) :
                details[i].value = LastOf(items, details[i].key).value

\* A key occurred twice with another key in between, with different values.
C20_Witness ==
    /\ scratch.kind = "parsed"
    /\ Len(scratch.items) = 3
    /\ scratch.items[1].key = scratch.items[3].key
    /\ scratch.items[1].key # scratch.items[2].key
    /\ scratch.items[1].value # scratch.items[3].value
    /\ Len(scratch.out.technicalDetails.entries) = 2

\* C21: extracting the price never raises; the price text "49,99" gives
\* the number 49.99 and the empty price text gives a not-a-number value.
C21_PriceExtraction ==
    (scratch.kind = "parsed" /\ scratch.out.result.present) =>
       /\ scratch.out.pricePerDay.type \in {"number", "NaN"}
       /\ scratch.price = ListedPrice =>
             scratch.out.pricePerDay = Num(<<"4", "9", Point, "9", "9">>)
       /\ scratch.price = <<>> => scratch.out.pricePerDay = NaN

\* -------------------------------------------- the operations on their own
Jobs ==
    {WriteJob(rec) : rec \in Results}
       \cup {ParseJob(url, elements, <<>>, ListedPrice) :
                url \in Pages, elements \in ElementSeqs}
       \cup {ParseJob(StartUrl, <<[class |-> "product", href |-> NoUrl]>>,
                      items, ListedPrice) :
                items \in ItemSeqs}
       \cup {ParseJob(StartUrl, <<[class |-> "product", href |-> NoUrl]>>,
                      <<>>, price) :
                price \in PriceTexts}

UnitInit ==
    /\ config = [targetHost |-> TRUE, outputPath |-> TRUE]
    /\ maxConnections = 1
    /\ startPc = "initialize"
    /\ result = Pending
    /\ tasks = <<>>
    /\ pendingWrites = {}
    /\ file = <<>>
    /\ errorLog = <<>>
    /\ processAlive = TRUE
    /\ probe = NoProbe
    /\ scratch \in Jobs

UnitNext ==
    \/ WriterWrite
    \/ ParserParse

UnitSpec == UnitInit /\ [][UnitNext]_vars

====
